---- MODULE Spec2Model ----
(***************************************************************************)
(* Model of calcular_frecuencias.py: calcular_frecuencias_falla, the       *)
(* bearing fault-frequency calculator, and the two example calls of its    *)
(* __main__ block.                                                         *)
(*                                                                         *)
(* Python floats are IEEE-754 binary64 values.  They are modelled exactly: *)
(* a float is a record [sg, m, e] of value sg * m * 2^e whose mantissa m   *)
(* is a natural number of exactly Precision bits, kept as a little-endian  *)
(* sequence of limbs (TLC's integers are 32 bits wide), and every          *)
(* operation rounds to nearest, ties to even, as the hardware does.  All   *)
(* values of the model stay far inside the normal exponent range, so       *)
(* overflow, underflow and subnormals are not modelled.  Zero has no sign  *)
(* (Python's 0.0 == -0.0).                                                 *)
(***************************************************************************)
EXTENDS Integers, Sequences, FiniteSets, TLC

(***************************************************************************)
(* Natural numbers of any size: little-endian limb sequences, no leading   *)
(* (high) zero limb; zero is << >>.                                        *)
(***************************************************************************)
Base == 2^15

RECURSIVE IntBitLen(_)
IntBitLen(n) == IF n = 0 THEN 0 ELSE 1 + IntBitLen(n \div 2)

\* bits per limb
LimbBits == IntBitLen(Base) - 1

Limb(a, i) == IF i <= Len(a) THEN a[i] ELSE 0

RECURSIVE BNorm(_)
BNorm(a) ==
  IF a = << >> THEN << >>
  ELSE IF a[Len(a)] = 0 THEN BNorm(SubSeq(a, 1, Len(a) - 1))
  ELSE a

RECURSIVE BFromInt(_)
BFromInt(n) == IF n = 0 THEN << >> ELSE <<n % Base>> \o BFromInt(n \div Base)

RECURSIVE BToInt(_)
BToInt(a) == IF a = << >> THEN 0 ELSE a[1] + Base * BToInt(Tail(a))

RECURSIVE BAddC(_, _, _, _)
BAddC(a, b, i, c) ==
  IF i > Len(a) /\ i > Len(b)
  THEN (IF c = 0 THEN << >> ELSE <<c>>)
  ELSE LET s == Limb(a, i) + Limb(b, i) + c
       IN  <<s % Base>> \o BAddC(a, b, i + 1, s \div Base)

BAdd(a, b) == BAddC(a, b, 1, 0)

RECURSIVE BSubC(_, _, _, _)
BSubC(a, b, i, c) ==
  IF i > Len(a) THEN << >>
  ELSE LET s == a[i] - Limb(b, i) - c
       IN  IF s < 0 THEN <<s + Base>> \o BSubC(a, b, i + 1, 1)
           ELSE <<s>> \o BSubC(a, b, i + 1, 0)

\* a - b, for a >= b
BSub(a, b) == BNorm(BSubC(a, b, 1, 0))

RECURSIVE BCmpAt(_, _, _)
BCmpAt(a, b, i) ==
  IF i = 0 THEN 0
  ELSE IF a[i] > b[i] THEN 1
  ELSE IF a[i] < b[i] THEN -1
  ELSE BCmpAt(a, b, i - 1)

\* -1, 0, 1 as a < b, a = b, a > b
BCmp(a, b) ==
  IF Len(a) > Len(b) THEN 1
  ELSE IF Len(a) < Len(b) THEN -1
  ELSE BCmpAt(a, b, Len(a))

RECURSIVE BMulSmallC(_, _, _, _)
BMulSmallC(a, k, i, c) ==
  IF i > Len(a) THEN (IF c = 0 THEN << >> ELSE <<c>>)
  ELSE LET s == a[i] * k + c
       IN  <<s % Base>> \o BMulSmallC(a, k, i + 1, s \div Base)

\* a * k, for 0 <= k < Base
BMulSmall(a, k) == IF k = 0 THEN << >> ELSE BMulSmallC(a, k, 1, 0)

Zeros(n) == [i \in 1..n |-> 0]

RECURSIVE BMulAt(_, _, _)
BMulAt(a, b, i) ==
  IF i > Len(b) THEN << >>
  ELSE BAdd(Zeros(i - 1) \o BMulSmall(a, b[i]), BMulAt(a, b, i + 1))

\* a * b (the top limb of b is not zero, so neither is the sum's)
BMul(a, b) == IF a = << >> \/ b = << >> THEN << >> ELSE BMulAt(a, b, 1)

\* a * 2^n
BShl(a, n) ==
  IF a = << >> THEN << >>
  ELSE Zeros(n \div LimbBits) \o BMulSmall(a, 2^(n % LimbBits))

RECURSIVE BDivSmallC(_, _, _, _)
BDivSmallC(a, k, i, r) ==
  IF i = 0 THEN << >>
  ELSE BDivSmallC(a, k, i - 1, (r * Base + a[i]) % k)
         \o <<(r * Base + a[i]) \div k>>

\* a \div k, for 0 < k <= Base
BDivSmall(a, k) == BNorm(BDivSmallC(a, k, Len(a), 0))

\* a \div 2^n
BShr(a, n) ==
  IF n \div LimbBits >= Len(a) THEN << >>
  ELSE BDivSmall(SubSeq(a, n \div LimbBits + 1, Len(a)), 2^(n % LimbBits))

BBitLen(a) ==
  IF a = << >> THEN 0 ELSE (Len(a) - 1) * LimbBits + IntBitLen(a[Len(a)])

BIsOdd(a) == a # << >> /\ a[1] % 2 = 1

\* The largest d in lo..hi with d * b <= r (binary search)
RECURSIVE QDigit(_, _, _, _)
QDigit(r, b, lo, hi) ==
  IF lo = hi THEN lo
  ELSE IF BCmp(BMulSmall(b, (lo + hi + 1) \div 2), r) <= 0
       THEN QDigit(r, b, (lo + hi + 1) \div 2, hi)
       ELSE QDigit(r, b, lo, (lo + hi + 1) \div 2 - 1)

\* One step of long division: the quotient q so far, the running remainder
\* r (the next limb already brought down) and the quotient digit d.
DivEmit(b, r, q, d) == << BNorm(<<d>> \o q), BSub(r, BMulSmall(b, d)) >>

DivDigit(b, r, q) == DivEmit(b, r, q, QDigit(r, b, 0, Base - 1))

DivStep(b, limb, prev) == DivDigit(b, BNorm(<<limb>> \o prev[2]), prev[1])

\* Long division, limb by limb from the high end: <<quotient, remainder>>
\* of the limbs i..Len(a) of a by b.
RECURSIVE BDivModAt(_, _, _)
BDivModAt(a, b, i) ==
  IF i > Len(a) THEN << << >>, << >> >>
  ELSE DivStep(b, a[i], BDivModAt(a, b, i + 1))

\* <<a \div b, a % b>>, for b > 0
BDivMod(a, b) == BDivModAt(a, b, 1)

(***************************************************************************)
(* binary64 arithmetic, round to nearest, ties to even.                    *)
(***************************************************************************)
\* bits of a binary64 mantissa
Precision == 53

FZero == [sg |-> 1, m |-> << >>, e |-> 0]

IsZero(x) == x.m = << >>

\* A mantissa of Precision + 1 bits after rounding up is 2^Precision.
FRenorm(sg, q, e) ==
  IF BBitLen(q) > Precision
  THEN [sg |-> sg, m |-> BShr(q, 1), e |-> e + 1]
  ELSE [sg |-> sg, m |-> q, e |-> e]

\* c compares the discarded part with one half: above, or at one half
\* with the kept part odd (or the exact value above it), rounds up.
FRoundUp(sg, q, e, c, sticky) ==
  IF c > 0 \/ (c = 0 /\ (sticky \/ BIsOdd(q)))
  THEN FRenorm(sg, BAdd(q, <<1>>), e)
  ELSE [sg |-> sg, m |-> q, e |-> e]

\* q == M \div 2^sh is the kept part
FRoundQ(sg, M, e, sticky, sh, q) ==
  FRoundUp(sg, q, e + sh,
           BCmp(BSub(M, BShl(q, sh)), BShl(<<1>>, sh - 1)), sticky)

\* L is the bit length of M
FRoundL(sg, M, e, sticky, L) ==
  IF L <= Precision
  THEN [sg |-> sg, m |-> BShl(M, Precision - L), e |-> e - (Precision - L)]
  ELSE FRoundQ(sg, M, e, sticky, L - Precision, BShr(M, L - Precision))

\* The float nearest to sg * M * 2^e (M > 0); sticky says that the exact
\* value is a little above M * 2^e (a division's remainder).
FRound(sg, M, e, sticky) == FRoundL(sg, M, e, sticky, BBitLen(M))

\* int -> float
FromInt(n) ==
  IF n = 0 THEN FZero
  ELSE FRound(IF n < 0 THEN -1 ELSE 1, BFromInt(IF n < 0 THEN -n ELSE n),
              0, FALSE)

FNeg(x) == IF IsZero(x) THEN x ELSE [x EXCEPT !.sg = -x.sg]

FMul(x, y) ==
  IF IsZero(x) \/ IsZero(y) THEN FZero
  ELSE FRound(x.sg * y.sg, BMul(x.m, y.m), x.e + y.e, FALSE)

\* |x| - |y| or |y| - |x| with the sign of the larger; c compares them
FSubMag(sx, mx, sy, my, e, c) ==
  IF c = 0 THEN FZero
  ELSE FRound(IF c > 0 THEN sx ELSE sy,
              IF c > 0 THEN BSub(mx, my) ELSE BSub(my, mx), e, FALSE)

\* the mantissas mx and my are aligned to the exponent e
FAddAligned(sx, mx, sy, my, e) ==
  IF sx = sy THEN FRound(sx, BAdd(mx, my), e, FALSE)
  ELSE FSubMag(sx, mx, sy, my, e, BCmp(mx, my))

Min(a, b) == IF a < b THEN a ELSE b

FAdd(x, y) ==
  IF IsZero(x) THEN y
  ELSE IF IsZero(y) THEN x
  ELSE FAddAligned(x.sg, BShl(x.m, x.e - Min(x.e, y.e)),
                   y.sg, BShl(y.m, y.e - Min(x.e, y.e)), Min(x.e, y.e))

FSub(x, y) == FAdd(x, FNeg(y))

GuardBits == Precision + 3

FDivQR(sg, e, qr) == FRound(sg, qr[1], e, qr[2] # << >>)

\* x / y for y # 0 (Python raises ZeroDivisionError before dividing by 0)
FDiv(x, y) ==
  IF IsZero(x) THEN FZero
  ELSE FDivQR(x.sg * y.sg, x.e - y.e - GuardBits,
              BDivMod(BShl(x.m, GuardBits), y.m))

(***************************************************************************)
(* Python's numeric literals, math.radians, math.cos and round.            *)
(***************************************************************************)

\* The float a decimal literal n / 10^d of the source text denotes: the
\* float nearest to it (n and 10^d are exact, the division rounds once).
Literal(n, d) == FDiv(FromInt(n), FromInt(10^d))

\* math.pi / 180, the C constant of math.radians: 0x1.1df46a2529d39p-6
degToRad == [sg |-> 1, m |-> <<7481, 17573, 32026, 142>>, e |-> -58]

radians(x) == FMul(x, degToRad)

\* math.cos is the C library's cos; its values at the angles of the model:
\* cos(0.0) = 1.0 and cos(0.2617993877991494) = 0.9659258262890683
\* (0x1.ee8dd4748bf15p-1).
cos(x) ==
  CASE IsZero(x) -> FromInt(1)
    [] x = [sg |-> 1, m |-> <<29541, 28762, 1352, 134>>, e |-> -54] ->
         [sg |-> 1, m |-> <<16149, 3729, 9077, 247>>, e |-> -53]

\* sg * h / 10^ndigits as a float (h a natural number): the float nearest
\* to the decimal
Decimal(sg, h, ndigits) ==
  IF h = << >> THEN FZero
  ELSE FDiv(FRound(sg, h, 0, FALSE), FromInt(10^ndigits))

\* Variant: ties go away from zero
RedondeaArribaMitad(c, q) == c >= 0

\* Whether the last kept digit q goes up; c compares the discarded part
\* with one half.  Ties go to the even digit.
RedondeaArriba(c, q) == c > 0 \/ (c = 0 /\ BIsOdd(q))

\* c == |x| * 10^ndigits * 2^sh exactly, q == c \div 2^sh
RoundQ(sg, c, sh, ndigits, q) ==
  Decimal(sg,
          IF RedondeaArriba(BCmp(BSub(c, BShl(q, sh)), BShl(<<1>>, sh - 1)), q)
          THEN BAdd(q, <<1>>) ELSE q,
          ndigits)

RoundScaled(sg, c, e, ndigits) ==
  IF e >= 0 THEN Decimal(sg, BShl(c, e), ndigits)
  ELSE RoundQ(sg, c, -e, ndigits, BShr(c, -e))

\* round(x, ndigits) of a float: CPython rounds the exact binary value to
\* ndigits decimals correctly, ties to the even digit, and returns the float
\* nearest to that decimal.
round(x, ndigits) ==
  IF IsZero(x) THEN FZero
  ELSE RoundScaled(x.sg, BMulSmall(x.m, 10^ndigits), x.e, ndigits)

(***************************************************************************)
(* calcular_frecuencias_falla                                              *)
(***************************************************************************)

\* Variant: the sum of the diameters, not their mean
DiametroPrimitivoSuma(d_interno, D_externo) == FAdd(d_interno, D_externo)

\* Pd = (d_interno + D_externo) / 2
DiametroPrimitivo(d_interno, D_externo) ==
  FDiv(FAdd(d_interno, D_externo), FromInt(2))

\* Variant: the rotation frequency rounded before it is used
FrecuenciaRotacionRedondeada(rpm) == round(FDiv(rpm, FromInt(60)), 2)

\* f_rot = rpm / 60
FrecuenciaRotacion(rpm) == FDiv(rpm, FromInt(60))

\* Variant: floor division, numero_elementos // 2
MitadElementosEntera(numero_elementos) == FromInt(numero_elementos \div 2)

\* numero_elementos / 2: true division of an int
MitadElementos(numero_elementos) == FDiv(FromInt(numero_elementos), FromInt(2))

\* Variant: floor division, 1 // 2
MitadEntera == FromInt(1 \div 2)

\* (1 / 2)
Mitad == FDiv(FromInt(1), FromInt(2))

\* x**2 (the C library's pow, which returns the correctly rounded square)
Cuadrado(x) == FMul(x, x)

\* Variant: the quotient of the rounded values
OrdenDeRedondeados(frecuencia, f_rot) ==
  FDiv(round(frecuencia, 2), round(f_rot, 2))

\* orden_X = X / f_rot
Orden(frecuencia, f_rot) == FDiv(frecuencia, f_rot)

\* Variant: a multiple of the rounded frequency
ArmonicaDeRedondeada(frecuencia, k) == FMul(round(frecuencia, 2), FromInt(k))

\* X * 2, X * 3
Armonica(frecuencia, k) == FMul(frecuencia, FromInt(k))

\* Variant: 'hz' stored as computed, not rounded
RegistroSinRedondear(frecuencia, orden, descripcion) ==
  [ hz          |-> frecuencia,
    orden       |-> round(orden, 2),
    descripcion |-> descripcion,
    armonicas   |-> ("2x" :> round(FMul(frecuencia, FromInt(2)), 2)) @@
                    ("3x" :> round(FMul(frecuencia, FromInt(3)), 2)) ]

\* one entry of resultados['frecuencias']
Registro(frecuencia, orden, descripcion) ==
  [ hz          |-> round(frecuencia, 2),
    orden       |-> round(orden, 2),
    descripcion |-> descripcion,
    armonicas   |-> ("2x" :> round(Armonica(frecuencia, 2), 2)) @@
                    ("3x" :> round(Armonica(frecuencia, 3), 2)) ]

\* resultados['parametros']
Parametros(d_interno, D_externo, Pd, numero_elementos, diametro_elemento, angulo_contacto, rpm, f_rot) ==
  [ d_interno_mm           |-> d_interno,
    D_externo_mm           |-> D_externo,
    diametro_primitivo_mm  |-> Pd,
    numero_elementos       |-> numero_elementos,
    diametro_elemento_mm   |-> diametro_elemento,
    angulo_contacto_grados |-> angulo_contacto,
    rpm                    |-> rpm,
    frecuencia_rotacion_hz |-> round(f_rot, 2) ]

\* A division by zero ends the call: Python raises ZeroDivisionError at the
\* line of the division and nothing is returned.
ZeroDivisionError(linea) == [excepcion |-> "ZeroDivisionError", linea |-> linea]

Tipos == {"BPFO", "BPFI", "FTF", "BSF"}

\* The call's outcome: the exception raised, or the dict returned together
\* with the function's locals (the unrounded values).
calcular_frecuencias_falla(d_interno, D_externo, numero_elementos, diametro_elemento, angulo_contacto, rpm) ==
  LET Pd       == DiametroPrimitivo(d_interno, D_externo)
      beta_rad == radians(angulo_contacto)
  IN
  IF IsZero(Pd) THEN ZeroDivisionError(33)
  ELSE
  LET bd_pd    == FDiv(diametro_elemento, Pd)
      cos_beta == cos(beta_rad)
      f_rot    == FrecuenciaRotacion(rpm)
      uno      == FromInt(1)
      BPFO == FMul(FMul(MitadElementos(numero_elementos),
                        FSub(uno, FMul(bd_pd, cos_beta))), f_rot)
      BPFI == FMul(FMul(MitadElementos(numero_elementos),
                        FAdd(uno, FMul(bd_pd, cos_beta))), f_rot)
      FTF  == FMul(FMul(Mitad, FSub(uno, FMul(bd_pd, cos_beta))), f_rot)
      dos_bd == FMul(FromInt(2), diametro_elemento)
  IN
  IF IsZero(dos_bd) THEN ZeroDivisionError(55)
  ELSE
  LET BSF == FMul(FMul(FDiv(Pd, dos_bd),
                       FSub(uno, Cuadrado(FMul(bd_pd, cos_beta)))), f_rot)
  IN
  IF IsZero(f_rot) THEN ZeroDivisionError(58)
  ELSE
  LET orden_BPFO == Orden(BPFO, f_rot)
      orden_BPFI == Orden(BPFI, f_rot)
      orden_FTF  == Orden(FTF, f_rot)
      orden_BSF  == Orden(BSF, f_rot)
  IN
  [ excepcion  |-> "ninguna",
    locales    |-> [ Pd |-> Pd, bd_pd |-> bd_pd, cos_beta |-> cos_beta,
                     f_rot |-> f_rot,
                     frecuencia |-> [ BPFO |-> BPFO, BPFI |-> BPFI,
                                      FTF |-> FTF, BSF |-> BSF ],
                     orden |-> [ BPFO |-> orden_BPFO, BPFI |-> orden_BPFI,
                                 FTF |-> orden_FTF, BSF |-> orden_BSF ] ],
    resultados |->
      [ parametros  |-> Parametros(d_interno, D_externo, Pd, numero_elementos,
                                   diametro_elemento, angulo_contacto, rpm,
                                   f_rot),
        frecuencias |->
          [ BPFO |-> Registro(BPFO, orden_BPFO, "Pista Externa (Outer Race)"),
            BPFI |-> Registro(BPFI, orden_BPFI, "Pista Interna (Inner Race)"),
            FTF  |-> Registro(FTF, orden_FTF, "Jaula (Cage)"),
            BSF  |-> Registro(BSF, orden_BSF,
                              "Elemento Rodante (Rolling Element)") ] ] ]

(***************************************************************************)
(* The program: a first call on a bearing at some speed and, as in the     *)
(* second example of __main__, a second call on the same bearing at a      *)
(* multiple of that speed.                                                 *)
(***************************************************************************)
VARIABLES entrada, pc, resultados1, factor, resultados2

vars == <<entrada, pc, resultados1, factor, resultados2>>

MaxElementos == 14
NumVelocidades == 4
NumFactores == 3

\* rpm of the first call: 1500 (example 1), 0, 7.5, 22.5, 100, 1800.  An int
\* argument is held as the float of the same value: the code only divides and
\* multiplies it, which converts it exactly.
Velocidades ==
  << FromInt(1500), FZero, Literal(75, 1), Literal(225, 1), FromInt(100),
     FromInt(1800) >>

\* the factor of the second call's speed: 2 (example 2), 3, 0.5, 1.5, 4
Factores ==
  << FromInt(2), FromInt(3), Literal(5, 1), Literal(15, 1), FromInt(4) >>

Entradas ==
  [ d_interno         : {Literal(150, 1), Literal(15123, 3)},
    D_externo         : {Literal(420, 1), Literal(4205, 2), FNeg(Literal(150, 1))},
    numero_elementos  : (MaxElementos - 1)..MaxElementos,
    diametro_elemento : {Literal(65, 1), FZero},
    angulo_contacto   : {FZero, Literal(150, 1)},
    rpm               : {Velocidades[i] : i \in 1..NumVelocidades} ]

NoLlamada == [excepcion |-> "sin llamar"]

Init ==
  /\ entrada \in Entradas
  /\ pc = "inicio"
  /\ resultados1 = NoLlamada
  /\ factor = FZero
  /\ resultados2 = NoLlamada

\* resultados1 = calcular_frecuencias_falla(...)
Ejemplo1 ==
  /\ pc = "inicio"
  /\ resultados1' = calcular_frecuencias_falla(
                      entrada.d_interno, entrada.D_externo,
                      entrada.numero_elementos, entrada.diametro_elemento,
                      entrada.angulo_contacto, entrada.rpm)
  /\ pc' = IF resultados1'.excepcion = "ninguna" THEN "ejemplo1" ELSE "error"
  /\ UNCHANGED <<entrada, factor, resultados2>>

\* resultados2 = calcular_frecuencias_falla(same bearing, rpm = k * rpm)
Ejemplo2(k) ==
  /\ pc = "ejemplo1"
  /\ factor' = k
  /\ resultados2' = calcular_frecuencias_falla(
                      entrada.d_interno, entrada.D_externo,
                      entrada.numero_elementos, entrada.diametro_elemento,
                      entrada.angulo_contacto, FMul(k, entrada.rpm))
  /\ pc' = IF resultados2'.excepcion = "ninguna" THEN "ejemplo2" ELSE "error"
  /\ UNCHANGED <<entrada, resultados1>>

Next ==
  \/ Ejemplo1
  \/ \E i \in 1..NumFactores : Ejemplo2(Factores[i])

Spec == Init /\ [][Next]_vars

(***************************************************************************)
(* Properties                                                              *)
(***************************************************************************)

\* x > 0
FPos(x) == ~IsZero(x) /\ x.sg = 1

\* the calls that returned
Llamadas == {r \in {resultados1, resultados2} : r.excepcion = "ninguna"}

\* example 1 of __main__: Timken 30302 at 1500 rpm
Escenario ==
  [ d_interno         |-> Literal(150, 1),
    D_externo         |-> Literal(420, 1),
    numero_elementos  |-> 14,
    diametro_elemento |-> Literal(65, 1),
    angulo_contacto   |-> Literal(150, 1),
    rpm               |-> FromInt(1500) ]

\* 0 < d_interno < D_externo and 0 < diametro_elemento
GeometriaValida ==
  /\ FPos(entrada.d_interno)
  /\ FPos(FSub(entrada.D_externo, entrada.d_interno))
  /\ FPos(entrada.diametro_elemento)

\* C1: for rpm = 0 and a valid geometry the call returns a result whose
\* rotation frequency and four frequencies are all 0.
C1_RpmCeroTodoCero ==
  (pc # "inicio" /\ IsZero(entrada.rpm) /\ GeometriaValida) =>
    /\ resultados1.excepcion = "ninguna"
    /\ IsZero(resultados1.resultados.parametros.frecuencia_rotacion_hz)
    /\ \A t \in Tipos : IsZero(resultados1.resultados.frecuencias[t].hz)

\* C2: the call is total: whatever the inputs, zero denominators included,
\* it returns a result and never ends in an error.
C2_Total ==
  /\ pc # "inicio" => resultados1.excepcion = "ninguna"
  /\ pc \notin {"inicio", "ejemplo1"} => resultados2.excepcion = "ninguna"

\* The unrounded values of the second call are k times those of the first
\* and the unrounded orders are the same.
EscalaPor(k) ==
  /\ resultados2.locales.f_rot = FMul(k, resultados1.locales.f_rot)
  /\ \A t \in Tipos :
       /\ resultados2.locales.frecuencia[t]
            = FMul(k, resultados1.locales.frecuencia[t])
       /\ resultados2.locales.orden[t] = resultados1.locales.orden[t]

\* C3 as stated: for any geometry, rpm > 0 and factor k > 0 the unrounded
\* rotation frequency and frequencies at k * rpm are exactly k times those
\* at rpm, and the orders are the same.
C3_EscalaExacta ==
  (pc = "ejemplo2" /\ FPos(entrada.rpm) /\ FPos(factor)) => EscalaPor(factor)

\* k = 2^j
EsPotenciaDeDos(k) == FPos(k) /\ k.m = BShl(<<1>>, Precision - 1)

\* C3 as amended: the same, for a factor k that is a power of two.
C3_EscalaPotenciaDeDos ==
  (pc = "ejemplo2" /\ FPos(entrada.rpm) /\ EsPotenciaDeDos(factor))
    => EscalaPor(factor)

C3_Witness ==
  /\ pc = "ejemplo2"
  /\ entrada.rpm = Literal(75, 1)
  /\ factor = Literal(5, 1)
  /\ EsPotenciaDeDos(factor)

\* the two examples of __main__: the scenario at 1500 and at 3000 rpm
DosEjemplos == entrada = Escenario /\ pc = "ejemplo2" /\ factor = FromInt(2)

Hz(r, t) == r.resultados.frecuencias[t].hz

\* C4 as stated: in the scenario each 'hz' at 3000 rpm is exactly twice the
\* 'hz' at 1500 rpm and each 'orden' is identical.
C4_DobleExacto ==
  DosEjemplos =>
    \A t \in Tipos :
      /\ Hz(resultados2, t) = FMul(FromInt(2), Hz(resultados1, t))
      /\ resultados2.resultados.frecuencias[t].orden
           = resultados1.resultados.frecuencias[t].orden

\* C4 as amended: each 'hz' at 3000 rpm is the '2x' harmonic reported at
\* 1500 rpm and each 'orden' is identical; 'hz' is exactly twice the 'hz'
\* at 1500 rpm for BPFO, BPFI and BSF, but not for FTF (19.49 against 9.75).
C4_DobleEscenario ==
  DosEjemplos =>
    /\ \A t \in Tipos :
         /\ Hz(resultados2, t)
              = resultados1.resultados.frecuencias[t].armonicas["2x"]
         /\ resultados2.resultados.frecuencias[t].orden
              = resultados1.resultados.frecuencias[t].orden
    /\ \A t \in Tipos \ {"FTF"} :
         Hz(resultados2, t) = FMul(FromInt(2), Hz(resultados1, t))
    /\ Hz(resultados1, "FTF") = Literal(975, 2)
    /\ Hz(resultados2, "FTF") = Literal(1949, 2)

C4_Witness ==
  /\ DosEjemplos
  /\ Hz(resultados2, "FTF") # FMul(FromInt(2), Hz(resultados1, "FTF"))
  /\ Hz(resultados2, "BPFO") = FMul(FromInt(2), Hz(resultados1, "BPFO"))

\* C5 as stated: in the scenario at 1500 rpm the record holds rotation
\* frequency 25.00, pitch diameter 28.5, BPFO 155.91, BPFI 194.09,
\* FTF 11.14 and BSF 46.06.
C5_ValoresEscenario ==
  (entrada = Escenario /\ pc # "inicio") =>
    /\ resultados1.excepcion = "ninguna"
    /\ resultados1.resultados.parametros.frecuencia_rotacion_hz = Literal(2500, 2)
    /\ resultados1.resultados.parametros.diametro_primitivo_mm = Literal(285, 1)
    /\ Hz(resultados1, "BPFO") = Literal(15591, 2)
    /\ Hz(resultados1, "BPFI") = Literal(19409, 2)
    /\ Hz(resultados1, "FTF") = Literal(1114, 2)
    /\ Hz(resultados1, "BSF") = Literal(4606, 2)

\* C5 as amended: rotation frequency 25.00 and pitch diameter 28.5, with
\* BPFO 136.45, BPFI 213.55, FTF 9.75 and BSF 52.15.
C5_ValoresCalculados ==
  (entrada = Escenario /\ pc # "inicio") =>
    /\ resultados1.excepcion = "ninguna"
    /\ resultados1.resultados.parametros.frecuencia_rotacion_hz = Literal(2500, 2)
    /\ resultados1.resultados.parametros.diametro_primitivo_mm = Literal(285, 1)
    /\ Hz(resultados1, "BPFO") = Literal(13645, 2)
    /\ Hz(resultados1, "BPFI") = Literal(21355, 2)
    /\ Hz(resultados1, "FTF") = Literal(975, 2)
    /\ Hz(resultados1, "BSF") = Literal(5215, 2)

C5_Witness ==
  /\ entrada = Escenario
  /\ pc = "ejemplo1"
  /\ Hz(resultados1, "BPFO") = Literal(13645, 2)

\* C6: the reported 'orden' is the 2-decimal rounding of the unrounded
\* frequency divided by the unrounded rotation frequency.
C6_OrdenSinRedondear ==
  \A r \in Llamadas : \A t \in Tipos :
    r.resultados.frecuencias[t].orden
      = round(FDiv(r.locales.frecuencia[t], r.locales.f_rot), 2)

\* a call whose reported order is not the quotient of the reported values
C6_Witness ==
  \E r \in Llamadas : \E t \in Tipos :
    /\ ~IsZero(r.resultados.parametros.frecuencia_rotacion_hz)
    /\ r.resultados.frecuencias[t].orden
         # round(FDiv(Hz(r, t),
                      r.resultados.parametros.frecuencia_rotacion_hz), 2)

\* C7: the reported harmonics are round(2 * f, 2) and round(3 * f, 2) of
\* the unrounded frequency f.
C7_ArmonicasSinRedondear ==
  \A r \in Llamadas : \A t \in Tipos :
    /\ r.resultados.frecuencias[t].armonicas["2x"]
         = round(FMul(r.locales.frecuencia[t], FromInt(2)), 2)
    /\ r.resultados.frecuencias[t].armonicas["3x"]
         = round(FMul(r.locales.frecuencia[t], FromInt(3)), 2)

\* a call whose reported harmonics are not multiples of the reported 'hz'
C7_Witness ==
  \E r \in Llamadas : \E t \in Tipos :
    /\ r.resultados.frecuencias[t].armonicas["2x"]
         # FMul(Hz(r, t), FromInt(2))
    /\ r.resultados.frecuencias[t].armonicas["3x"]
         # round(FMul(Hz(r, t), FromInt(3)), 2)

\* x is a float that round(., 2) returns: the float nearest to a decimal
\* of two places
EsDosDecimales(x) == round(x, 2) = x

\* the values computed from the rotation frequency
ValoresDerivados(r) ==
  {r.resultados.parametros.frecuencia_rotacion_hz}
    \cup {Hz(r, t) : t \in Tipos}
    \cup {r.resultados.frecuencias[t].orden : t \in Tipos}
    \cup {r.resultados.frecuencias[t].armonicas[a] :
            t \in Tipos, a \in {"2x", "3x"}}

\* the input parameters and the pitch diameter, as the record holds them
ValoresDeEntrada(r) ==
  { r.resultados.parametros.d_interno_mm,
    r.resultados.parametros.D_externo_mm,
    r.resultados.parametros.diametro_primitivo_mm,
    FromInt(r.resultados.parametros.numero_elementos),
    r.resultados.parametros.diametro_elemento_mm,
    r.resultados.parametros.angulo_contacto_grados,
    r.resultados.parametros.rpm }

\* C8 as stated: every numeric value of the record is rounded to 2
\* decimal places.
C8_TodoRedondeado ==
  \A r \in Llamadas :
    \A x \in ValoresDerivados(r) \cup ValoresDeEntrada(r) : EsDosDecimales(x)

\* C8 as amended: the rotation frequency and every hz, order and harmonic
\* value are rounded to 2 decimal places; the input parameters and the
\* pitch diameter are stored as given and as computed, unrounded.
C8_DerivadosRedondeados ==
  /\ \A r \in Llamadas : \A x \in ValoresDerivados(r) : EsDosDecimales(x)
  /\ \A r \in Llamadas :
       /\ r.resultados.parametros.d_interno_mm = entrada.d_interno
       /\ r.resultados.parametros.D_externo_mm = entrada.D_externo
       /\ r.resultados.parametros.numero_elementos = entrada.numero_elementos
       /\ r.resultados.parametros.diametro_elemento_mm = entrada.diametro_elemento
       /\ r.resultados.parametros.angulo_contacto_grados = entrada.angulo_contacto
       /\ r.resultados.parametros.diametro_primitivo_mm = r.locales.Pd
  /\ pc # "inicio" /\ resultados1.excepcion = "ninguna"
       => resultados1.resultados.parametros.rpm = entrada.rpm
  /\ pc = "ejemplo2"
       => resultados2.resultados.parametros.rpm = FMul(factor, entrada.rpm)

\* a record whose pitch diameter and inner diameter have more decimals
C8_Witness ==
  /\ pc = "ejemplo1"
  /\ ~EsDosDecimales(resultados1.resultados.parametros.diametro_primitivo_mm)
  /\ ~EsDosDecimales(resultados1.resultados.parametros.d_interno_mm)
  /\ \E t \in Tipos : Hz(resultados1, t) # resultados1.locales.frecuencia[t]

\* C9: for contact angle 0 the unrounded BPFO is (n/2) * (1 - ratio) * fRot
\* and the unrounded BPFI is (n/2) * (1 + ratio) * fRot, with
\* ratio = diametro_elemento / Pd and n/2 the real quotient (n * 0.5).
C9_AnguloCero ==
  \A r \in Llamadas :
    IsZero(entrada.angulo_contacto) =>
      LET n     == entrada.numero_elementos
          ratio == FDiv(entrada.diametro_elemento, r.locales.Pd)
          medio == Literal(5 * n, 1)
      IN  /\ r.locales.cos_beta = FromInt(1)
          /\ r.locales.frecuencia["BPFO"]
               = FMul(FMul(medio, FSub(FromInt(1), ratio)), r.locales.f_rot)
          /\ r.locales.frecuencia["BPFI"]
               = FMul(FMul(medio, FAdd(FromInt(1), ratio)), r.locales.f_rot)

C9_Witness ==
  /\ pc = "ejemplo1"
  /\ IsZero(entrada.angulo_contacto)
  /\ entrada.numero_elementos % 2 = 1
  /\ FPos(resultados1.locales.frecuencia["BPFO"])

\* The unrounded values of a call with the value the record reports for
\* each: <<unrounded, reported>>
Redondeos(r) ==
  {<<r.locales.f_rot, r.resultados.parametros.frecuencia_rotacion_hz>>}
    \cup {<<r.locales.frecuencia[t], Hz(r, t)>> : t \in Tipos}
    \cup {<<r.locales.orden[t], r.resultados.frecuencias[t].orden>> :
            t \in Tipos}
    \cup {<<FMul(r.locales.frecuencia[t], FromInt(2)),
            r.resultados.frecuencias[t].armonicas["2x"]>> : t \in Tipos}
    \cup {<<FMul(r.locales.frecuencia[t], FromInt(3)),
            r.resultados.frecuencias[t].armonicas["3x"]>> : t \in Tipos}

\* floor(|x| * 100), for |x| < 2^Precision
Centesimas(x) == BShr(BMulSmall(x.m, 100), -x.e)

\* |x| * 100 lies exactly halfway between two integers
EsEmpate(x) ==
  /\ ~IsZero(x)
  /\ x.e < 0
  /\ BSub(BMulSmall(x.m, 100), BShl(Centesimas(x), -x.e))
       = BShl(<<1>>, -x.e - 1)

\* C10 as stated: a value exactly halfway between two 2-decimal values is
\* rounded to the one of larger magnitude.
C10_MitadLejosDeCero ==
  \A r \in Llamadas : \A p \in Redondeos(r) :
    EsEmpate(p[1]) =>
      p[2] = Decimal(p[1].sg, BAdd(Centesimas(p[1]), <<1>>), 2)

\* C10 as amended: a value exactly halfway between two 2-decimal values is
\* rounded to the one whose last digit is even (0.125 to 0.12, 0.375 to
\* 0.38).
C10_MitadAlPar ==
  \A r \in Llamadas : \A p \in Redondeos(r) :
    EsEmpate(p[1]) =>
      p[2] = Decimal(p[1].sg,
                     IF BIsOdd(Centesimas(p[1]))
                     THEN BAdd(Centesimas(p[1]), <<1>>)
                     ELSE Centesimas(p[1]), 2)

\* rpm = 7.5: the rotation frequency 0.125 is reported as 0.12
C10_Witness ==
  /\ pc = "ejemplo1"
  /\ entrada.rpm = Literal(75, 1)
  /\ EsEmpate(resultados1.locales.f_rot)
  /\ resultados1.locales.f_rot = Literal(125, 3)
  /\ resultados1.resultados.parametros.frecuencia_rotacion_hz = Literal(12, 2)

====
